---- MODULE Spec2Model ----
(***************************************************************************)
(* AaveVault (packages/hardhat/contracts/AaveVault.sol): a pooled ETH      *)
(* vault.  Depositors deposit ETH, anyone may supply the idle ETH to Aave, *)
(* and a depositor withdraws a proportional share of the vault value.      *)
(*                                                                         *)
(* Every external call of the contract is one atomic action: the EVM runs  *)
(* a transaction to completion and a revert discards all of its writes.    *)
(* The collaborators (WETH, the Aave pool, the aToken, the recipient of an *)
(* ETH transfer) are modelled by their interface contract: supply and      *)
(* withdraw are 1:1, and each of them may fail, which is an input of the   *)
(* action.  Amounts are far below 2^256 (the whole ETH supply is below    *)
(* 2^87 wei, so totalVaultValue * amount stays below 2^174): checked       *)
(* arithmetic can only fail by underflow or division by zero, and both     *)
(* are modelled as a Panic revert.                                         *)
(***************************************************************************)
EXTENDS Integers, FiniteSets, Sequences, TLC

\* ------------------------------------------------------------ bounds
\* largest msg.value of one deposit, of one yield accrual, of one direct receipt
MaxAmount == 2
\* cap on getTotalVaultValue(): deposits, yield and direct receipts stop there
MaxValue == 4
\* cap on the sum of one depositor's deposits over a run
MaxDeposited == 2

\* the scenario's "1.0 unit" counted in smallest units, large enough for one thousandth
\* of a unit to be a whole number: UnitBase .. UnitBase + MaxUnitSpread
MaxUnitSpread == 14
UnitBase == 1000
\* withdraw calls in progress at once: 1 is a plain call, 2 a call re-entered once
MaxDepth == 2

\* the callers (msg.sender); NoOne is the value of last.caller when no caller
Users == {"user1", "user2"}
NoOne == "none"

VARIABLES
    userDeposits,   \* mapping(address => uint256) userDeposits       (line 28)
    totalDeposits,  \* uint256 totalDeposits                          (line 31)
    ethBalance,     \* address(this).balance, the idle balance
    aaveBalance,    \* aToken.balanceOf(address(this)), the yield-source balance
    deposited,      \* history: sum of msg.value of each caller's successful deposits
    withdrawn,      \* history: sum of amount of each caller's successful withdraws
    pending,        \* history: each caller's latest deposit, until their next operation
                    \* or the next supply, yield accrual or direct receipt
    last,           \* history: the latest call, its outcome and what it transferred
    frames          \* the withdraw calls in progress, outermost first; each is stopped
                    \* at an external call it has made (always empty under Spec, where
                    \* a call is one step)

vars == <<userDeposits, totalDeposits, ethBalance, aaveBalance,
          deposited, withdrawn, pending, last, frames>>

\* ------------------------------------------------------------ helpers
RECURSIVE SumOver(_, _)
SumOver(f, S) ==
    IF S = {} THEN 0
    ELSE LET x == CHOOSE y \in S : TRUE IN f[x] + SumOver(f, S \ {x})

\* the revert reasons of the contract, and the ones of its collaborators
OK == "ok"
ErrDepositZero == "Must deposit more than 0"
ErrNoEth == "No ETH to supply"
ErrWithdrawZero == "Must withdraw more than 0"
ErrInsufficient == "Insufficient balance"
ErrWethTransfer == "WETH transfer failed"
ErrEthTransfer == "ETH transfer failed"
ErrAaveWithdraw == "Aave withdraw reverted"
ErrSupply == "supply reverted"
ErrPanic == "Panic"

\* what the collaborators do during one call: does the Aave pool / WETH call
\* succeed, does the WETH transfer succeed, does the caller accept ETH
\* (a call reverts at its first failure, so at most one of them is chosen to fail)
AllGood == [aave |-> TRUE, weth |-> TRUE, eth |-> TRUE]
Behaviours ==
    {AllGood, [AllGood EXCEPT !.aave = FALSE], [AllGood EXCEPT !.weth = FALSE],
     [AllGood EXCEPT !.eth = FALSE]}

\* ------------------------------------------------------------ views
\* getTotalVaultValue(): ethBalance + aaveBalance
\* faulty variant: the aToken balance is left out of the value
getTotalVaultValue_OnlyEth(eth, aave) == eth

getTotalVaultValue(eth, aave) == eth + aave

\* faulty variant: the guard of line 156 is missing; the division by zero of
\* line 159 is a Panic, written -1
getUserValue_NoGuard(ud, td, eth, aave, user) ==
    IF td = 0 THEN -1
    ELSE (getTotalVaultValue(eth, aave) * ud[user]) \div td

\* getUserValue(user)
getUserValue(ud, td, eth, aave, user) ==
    IF td = 0 THEN 0
    ELSE (getTotalVaultValue(eth, aave) * ud[user]) \div td

\* faulty variant: reports the whole value as interest
getUserInterest_NoSubtract(ud, td, eth, aave, user) ==
    getUserValue(ud, td, eth, aave, user)

\* faulty variant: subtracts the principal without comparing first
getUserInterest_Unchecked(ud, td, eth, aave, user) ==
    getUserValue(ud, td, eth, aave, user) - ud[user]

\* getUserInterest(user)
getUserInterest(ud, td, eth, aave, user) ==
    IF td = 0 THEN 0
    ELSE LET userTotalValue == (getTotalVaultValue(eth, aave) * ud[user]) \div td
         IN IF userTotalValue > ud[user] THEN userTotalValue - ud[user] ELSE 0

\* ------------------------------------------------------------ deposit
\* lines 61-62: userDeposits[msg.sender] += msg.value; totalDeposits += msg.value
\* faulty variant: = in place of += on userDeposits
depositBookkeeping_Overwrite(ud, td, sender, value) ==
    [ud |-> [ud EXCEPT ![sender] = value], td |-> td + value]

\* faulty variant: the record is set from the new total
depositBookkeeping_FromTotal(ud, td, sender, value) ==
    [ud |-> [ud EXCEPT ![sender] = td + value], td |-> td + value]

\* faulty variant: totalDeposits is not updated
depositBookkeeping_NoTotal(ud, td, sender, value) ==
    [ud |-> [ud EXCEPT ![sender] = @ + value], td |-> td]

depositBookkeeping(ud, td, sender, value) ==
    [ud |-> [ud EXCEPT ![sender] = @ + value], td |-> td + value]

\* deposit() payable: msg.value is credited to the balance before the body runs
deposit(ud, td, eth, aave, sender, value) ==
    IF ~(value > 0)
    THEN [status |-> ErrDepositZero, ud |-> ud, td |-> td, eth |-> eth, aave |-> aave]
    ELSE LET b == depositBookkeeping(ud, td, sender, value)
         IN [status |-> OK, ud |-> b.ud, td |-> b.td, eth |-> eth + value, aave |-> aave]

\* ------------------------------------------------------------ supplyToAave
\* line 72: the amount wrapped and supplied is the whole balance
\* faulty variant: supplies the recorded deposits, not the balance
supplyAmount_TotalDeposits(td, eth) == IF td < eth THEN td ELSE eth

supplyAmount(td, eth) == eth

\* supplyToAave(): weth.deposit{value}, weth.approve, aavePool.supply, 1:1
\* faulty variant: line 73 is missing; the pool then rejects the supply of 0
supplyToAave_NoRequire(td, eth, aave, ext) ==
    LET amt == supplyAmount(td, eth)
    IN IF ~(ext.weth /\ ext.aave) \/ amt = 0
       THEN [status |-> ErrSupply, eth |-> eth, aave |-> aave, supplied |-> 0]
       ELSE [status |-> OK, eth |-> eth - amt, aave |-> aave + amt, supplied |-> amt]

supplyToAave(td, eth, aave, ext) ==
    LET amt == supplyAmount(td, eth)
    IN IF ~(eth > 0) THEN [status |-> ErrNoEth, eth |-> eth, aave |-> aave, supplied |-> 0]
       ELSE IF ~(ext.weth /\ ext.aave)
            THEN [status |-> ErrSupply, eth |-> eth, aave |-> aave, supplied |-> 0]
       ELSE [status |-> OK, eth |-> eth - amt, aave |-> aave + amt, supplied |-> amt]

\* ------------------------------------------------------------ withdraw
\* lines 94-95: the two require statements, in the order of the code
\* faulty variant: the balance check reads totalDeposits
withdrawRequire_TotalDeposits(ud, td, sender, amount) ==
    IF ~(amount > 0) THEN ErrWithdrawZero
    ELSE IF ~(td >= amount) THEN ErrInsufficient
    ELSE OK

\* faulty variant: line 94 is missing
withdrawRequire_NoZeroCheck(ud, td, sender, amount) ==
    IF ~(ud[sender] >= amount) THEN ErrInsufficient ELSE OK

withdrawRequire(ud, td, sender, amount) ==
    IF ~(amount > 0) THEN ErrWithdrawZero
    ELSE IF ~(ud[sender] >= amount) THEN ErrInsufficient
    ELSE OK

\* line 99: userShare = (totalVaultValue * amount) / totalDeposits
\* faulty variant: the share is rounded up
userShare_RoundUp(totalVaultValue, amount, td) ==
    (totalVaultValue * amount + td - 1) \div td

userShare(totalVaultValue, amount, td) == (totalVaultValue * amount) \div td

\* lines 102-103: userDeposits[msg.sender] -= amount; totalDeposits -= amount
\* (checked subtraction: an underflow is a Panic)
\* faulty variant: userDeposits[msg.sender] is not reduced
withdrawBookkeeping_NoUser(ud, td, sender, amount) ==
    IF td < amount THEN [panic |-> TRUE, ud |-> ud, td |-> td]
    ELSE [panic |-> FALSE, ud |-> ud, td |-> td - amount]

\* faulty variant: totalDeposits is not reduced
withdrawBookkeeping_NoTotal(ud, td, sender, amount) ==
    IF ud[sender] < amount THEN [panic |-> TRUE, ud |-> ud, td |-> td]
    ELSE [panic |-> FALSE, ud |-> [ud EXCEPT ![sender] = @ - amount], td |-> td]

withdrawBookkeeping(ud, td, sender, amount) ==
    IF ud[sender] < amount \/ td < amount
    THEN [panic |-> TRUE, ud |-> ud, td |-> td]
    ELSE [panic |-> FALSE, ud |-> [ud EXCEPT ![sender] = @ - amount], td |-> td - amount]

\* line 111: userShare > ethBalance && aaveBalance > 0
\* faulty variant: the test userShare > ethBalance is dropped
needAave_AnyAave(share, eth, aave) == aave > 0

needAave(share, eth, aave) == share > eth /\ aave > 0

\* line 113: amountToWithdraw = userShare - ethBalance
\* faulty variant: the whole share is pulled from Aave
amountToWithdraw_Whole(share, eth) == share

amountToWithdraw(share, eth) == share - eth

\* line 116: aavePool.withdraw(weth, amount, this) returns the amount withdrawn;
\* the pool reverts on amount 0 and on an amount above the aToken balance
aavePoolWithdraw(aave, amount, succeeds) ==
    IF succeeds /\ amount > 0 /\ amount <= aave
    THEN [reverted |-> FALSE, aave |-> aave - amount, withdrawn |-> amount]
    ELSE [reverted |-> TRUE, aave |-> aave, withdrawn |-> 0]

\* lines 127-129: require(weth.transfer(msg.sender, wethToSend))
wethTransfer(wethToSend, succeeds) ==
    IF wethToSend > 0
    THEN IF succeeds THEN [reverted |-> FALSE, sent |-> wethToSend]
                     ELSE [reverted |-> TRUE, sent |-> 0]
    ELSE [reverted |-> FALSE, sent |-> 0]

\* lines 132-135: msg.sender.call{value: ethToSend}(""); require(success)
\* faulty variant: the result of the call is not required
ethTransfer_Unchecked(eth, ethToSend, accepts) ==
    IF ethToSend > 0 /\ accepts /\ ethToSend <= eth
    THEN [reverted |-> FALSE, eth |-> eth - ethToSend, sent |-> ethToSend]
    ELSE [reverted |-> FALSE, eth |-> eth, sent |-> 0]

ethTransfer(eth, ethToSend, accepts) ==
    IF ethToSend > 0
    THEN IF accepts /\ ethToSend <= eth
         THEN [reverted |-> FALSE, eth |-> eth - ethToSend, sent |-> ethToSend]
         ELSE [reverted |-> TRUE, eth |-> eth, sent |-> 0]
    ELSE [reverted |-> FALSE, eth |-> eth, sent |-> 0]

\* the outcome of a withdraw that does not return normally
Reverted(reason, ud, td, eth, aave) ==
    [status |-> reason, ud |-> ud, td |-> td, eth |-> eth, aave |-> aave,
     ethSent |-> 0, wethSent |-> 0, userShare |-> 0]

\* lines 105-137: routing and transfers, after the bookkeeping (ud1, td1);
\* ud, td are the values a revert restores
withdrawPayout(ud, td, ud1, td1, eth, aave, share, ext) ==
    LET fromAave == needAave(share, eth, aave)
        toPull   == amountToWithdraw(share, eth)
        pool     == IF fromAave
                    THEN IF toPull < 0
                         THEN [reverted |-> TRUE, aave |-> aave, withdrawn |-> 0]
                         ELSE aavePoolWithdraw(aave, toPull, ext.aave)
                    ELSE [reverted |-> FALSE, aave |-> aave, withdrawn |-> 0]
        wethToSend == pool.withdrawn
        ethToSend  == IF fromAave THEN eth ELSE share
        w == wethTransfer(wethToSend, ext.weth)
        e == ethTransfer(eth, ethToSend, ext.eth)
    IN IF fromAave /\ toPull < 0 THEN Reverted(ErrPanic, ud, td, eth, aave)
       ELSE IF pool.reverted THEN Reverted(ErrAaveWithdraw, ud, td, eth, aave)
       ELSE IF w.reverted THEN Reverted(ErrWethTransfer, ud, td, eth, aave)
       ELSE IF e.reverted THEN Reverted(ErrEthTransfer, ud, td, eth, aave)
       ELSE [status |-> OK, ud |-> ud1, td |-> td1, eth |-> e.eth, aave |-> pool.aave,
             ethSent |-> e.sent, wethSent |-> w.sent, userShare |-> share]

\* withdraw(amount), lines 93-138
withdraw(ud, td, eth, aave, sender, amount, ext) ==
    LET req == withdrawRequire(ud, td, sender, amount)
    IN IF req # OK THEN Reverted(req, ud, td, eth, aave)
       ELSE IF td = 0 THEN Reverted(ErrPanic, ud, td, eth, aave)
       ELSE LET totalVaultValue == getTotalVaultValue(eth, aave)
                share == userShare(totalVaultValue, amount, td)
                b == withdrawBookkeeping(ud, td, sender, amount)
            IN IF b.panic THEN Reverted(ErrPanic, ud, td, eth, aave)
               ELSE withdrawPayout(ud, td, b.ud, b.td, eth, aave, share, ext)

\* ------------------------------------------------------------ state machine
NoPending == [amount |-> 0, prior |-> 0]

\* the entry of the history variable last for a call and its outcome
Call(op, caller, amount, status, ethSent, wethSent, payout) ==
    [op |-> op, caller |-> caller, amount |-> amount, status |-> status,
     ethSent |-> ethSent, wethSent |-> wethSent, payout |-> payout]

\* the amounts a caller may ask withdraw for: 0, and up to above any principal
WithdrawAmounts == 0 .. (MaxDeposited + 1)

TotalVaultValue == getTotalVaultValue(ethBalance, aaveBalance)

\* constructor, lines 44-52: an empty ledger; the vault holds no ETH, no aToken
Init ==
    /\ userDeposits = [u \in Users |-> 0]
    /\ totalDeposits = 0
    /\ ethBalance = 0
    /\ aaveBalance = 0
    /\ deposited = [u \in Users |-> 0]
    /\ withdrawn = [u \in Users |-> 0]
    /\ pending = [u \in Users |-> NoPending]
    /\ last = Call("constructor", NoOne, 0, OK, 0, 0, 0)
    /\ frames = <<>>

\* a transaction calling deposit() with msg.value = value
DepositCall(u, value) ==
    LET r == deposit(userDeposits, totalDeposits, ethBalance, aaveBalance, u, value)
    IN /\ last' = Call("deposit", u, value, r.status, 0, 0, 0)
       /\ IF r.status = OK
          THEN /\ userDeposits' = r.ud
               /\ totalDeposits' = r.td
               /\ ethBalance' = r.eth
               /\ aaveBalance' = r.aave
               /\ deposited' = [deposited EXCEPT ![u] = @ + value]
               /\ pending' = [pending EXCEPT ![u] =
                      [amount |-> value, prior |-> userDeposits[u]]]
          ELSE UNCHANGED <<userDeposits, totalDeposits, ethBalance, aaveBalance,
                           deposited, pending>>
       /\ UNCHANGED <<withdrawn, frames>>

\* the deposits of the bounded model
Deposit(u, value) ==
    /\ TotalVaultValue + value <= MaxValue
    /\ deposited[u] + value <= MaxDeposited
    /\ DepositCall(u, value)

\* a transaction calling supplyToAave()
SupplyToAave(u, ext) ==
    LET r == supplyToAave(totalDeposits, ethBalance, aaveBalance, ext)
    IN /\ last' = Call("supplyToAave", u, r.supplied, r.status, 0, 0, 0)
       /\ IF r.status = OK
          THEN /\ ethBalance' = r.eth
               /\ aaveBalance' = r.aave
               /\ pending' = [v \in Users |-> NoPending]
          ELSE UNCHANGED <<ethBalance, aaveBalance, pending>>
       /\ UNCHANGED <<userDeposits, totalDeposits, deposited, withdrawn, frames>>

\* a transaction calling withdraw(amount)
Withdraw(u, amount, ext) ==
    LET r == withdraw(userDeposits, totalDeposits, ethBalance, aaveBalance, u, amount, ext)
    IN /\ last' = Call("withdraw", u, amount, r.status, r.ethSent, r.wethSent, r.userShare)
       /\ IF r.status = OK
          THEN /\ userDeposits' = r.ud
               /\ totalDeposits' = r.td
               /\ ethBalance' = r.eth
               /\ aaveBalance' = r.aave
               /\ withdrawn' = [withdrawn EXCEPT ![u] = @ + amount]
               /\ pending' = [pending EXCEPT ![u] = NoPending]
          ELSE UNCHANGED <<userDeposits, totalDeposits, ethBalance, aaveBalance,
                           withdrawn, pending>>
       /\ UNCHANGED <<deposited, frames>>

\* the aToken balance of the vault grows by interest; a zero balance earns none
YieldAccrual(y) ==
    /\ aaveBalance > 0
    /\ aaveBalance' = aaveBalance + y
    /\ pending' = [v \in Users |-> NoPending]
    /\ last' = Call("yield", NoOne, y, OK, 0, 0, 0)
    /\ UNCHANGED <<userDeposits, totalDeposits, ethBalance, deposited, withdrawn, frames>>

\* the yield accruals of the bounded model
AccrueYield(y) ==
    /\ TotalVaultValue + y <= MaxValue
    /\ YieldAccrual(y)

\* receive() external payable {}, line 198: ETH sent to the vault outside deposit
Receive(value) ==
    /\ TotalVaultValue + value <= MaxValue
    /\ ethBalance' = ethBalance + value
    /\ pending' = [v \in Users |-> NoPending]
    /\ last' = Call("receive", NoOne, value, OK, 0, 0, 0)
    /\ UNCHANGED <<userDeposits, totalDeposits, aaveBalance, deposited, withdrawn, frames>>

Next ==
    \/ \E u \in Users, value \in 0 .. MaxAmount : Deposit(u, value)
    \/ \E u \in Users, ext \in Behaviours : SupplyToAave(u, ext)
    \/ \E u \in Users, amount \in WithdrawAmounts, ext \in Behaviours : Withdraw(u, amount, ext)
    \/ \E y \in 1 .. MaxAmount : AccrueYield(y)
    \/ \E value \in 1 .. MaxAmount : Receive(value)

Spec == Init /\ [][Next]_vars

\* ------------------------------------------------------------ yield-source loss
\* the aToken balance of the vault shrinks: the vault's claim on the pool loses value
Loss(l) ==
    /\ l <= aaveBalance
    /\ aaveBalance' = aaveBalance - l
    /\ pending' = [v \in Users |-> NoPending]
    /\ last' = Call("loss", NoOne, l, OK, 0, 0, 0)
    /\ UNCHANGED <<userDeposits, totalDeposits, ethBalance, deposited, withdrawn, frames>>

NextLoss ==
    \/ Next
    \/ \E l \in 1 .. MaxAmount : Loss(l)

SpecLoss == Init /\ [][NextLoss]_vars

\* ------------------------------------------------------------ yield scenario
\* (test "Should handle proportional withdrawals correctly": both signers deposit the
\* same amount, the pooled balance is supplied, the aToken balance then grows by 10%)
ScenarioUnits == {UnitBase + j : j \in 0 .. MaxUnitSpread}

\* user1 and user2 each deposit the same unit, one deposit each
ScenarioDeposit(u, unit) ==
    /\ last.op \in {"constructor", "deposit"}
    /\ deposited[u] = 0
    /\ \A v \in Users : deposited[v] \in {0, unit}
    /\ DepositCall(u, unit)

\* anyone supplies the pooled idle balance once both deposits are in
ScenarioSupply(u, ext) ==
    /\ \A v \in Users : deposited[v] > 0
    /\ last.op \in {"deposit", "supplyToAave"}
    /\ aaveBalance = 0
    /\ SupplyToAave(u, ext)

\* the yield source appreciates the pooled claim by 10%
ScenarioYield ==
    /\ last.op = "supplyToAave"
    /\ last.status = OK
    /\ YieldAccrual(aaveBalance \div 10)

NextScenario ==
    \/ \E u \in Users, unit \in ScenarioUnits : ScenarioDeposit(u, unit)
    \/ \E u \in Users, ext \in Behaviours : ScenarioSupply(u, ext)
    \/ ScenarioYield

SpecScenario == Init /\ [][NextScenario]_vars

\* ------------------------------------------------------------ deposits only
\* the vault when no yield accrues and no value reaches it other than through deposit:
\* the only operations are deposit, supplyToAave and withdraw
NextPure ==
    \/ \E u \in Users, value \in 0 .. MaxAmount : Deposit(u, value)
    \/ \E u \in Users, ext \in Behaviours : SupplyToAave(u, ext)
    \/ \E u \in Users, amount \in WithdrawAmounts, ext \in Behaviours : Withdraw(u, amount, ext)

SpecPure == Init /\ [][NextPure]_vars

\* ------------------------------------------------------------ withdraw, step by step
\* withdraw makes up to three external calls; while one of them runs, the callee has
\* control and may call withdraw again (the contract has no re-entrancy lock).  A frame
\* is one withdraw in progress: its locals and the state a revert of it restores.
AtPool == "aavePool.withdraw"
AtWeth == "weth.transfer"
AtCall == "msg.sender.call"

Top == frames[Len(frames)]
Below == SubSeq(frames, 1, Len(frames) - 1)

\* what a revert of a call that starts now restores
Snapshot ==
    [ud |-> userDeposits, td |-> totalDeposits, eth |-> ethBalance, aave |-> aaveBalance,
     deposited |-> deposited, withdrawn |-> withdrawn]

\* the frame f, the innermost one, reverts with reason: all writes made since it began
\* are discarded, those of the calls nested in it included
RevertFrame(f, below, reason) ==
    /\ userDeposits' = f.saved.ud
    /\ totalDeposits' = f.saved.td
    /\ ethBalance' = f.saved.eth
    /\ aaveBalance' = f.saved.aave
    /\ deposited' = f.saved.deposited
    /\ withdrawn' = f.saved.withdrawn
    /\ pending' = [v \in Users |-> NoPending]
    /\ frames' = below
    /\ last' = Call("withdraw", f.sender, f.amount, reason, 0, 0, 0)

\* line 137: the frame f returns normally, leaving the ledger at (ud1, td1, eth1, aave1)
FinishFrame(f, below, ud1, td1, eth1, aave1) ==
    /\ userDeposits' = ud1
    /\ totalDeposits' = td1
    /\ ethBalance' = eth1
    /\ aaveBalance' = aave1
    /\ withdrawn' = [withdrawn EXCEPT ![f.sender] = @ + f.amount]
    /\ pending' = [v \in Users |-> NoPending]
    /\ frames' = below
    /\ last' = Call("withdraw", f.sender, f.amount, OK, f.ethToSend, f.wethToSend, f.share)
    /\ UNCHANGED deposited

\* lines 131-133: the ETH transfer is made, if any.  The value leaves the vault before
\* the code of the recipient runs; a call for more than the vault holds fails at once.
SendEth(f, below, ud1, td1, aave1) ==
    LET e == ethTransfer(ethBalance, f.ethToSend, TRUE)
    IN IF e.reverted THEN RevertFrame(f, below, ErrEthTransfer)
       ELSE IF e.sent = 0 THEN FinishFrame(f, below, ud1, td1, ethBalance, aave1)
       ELSE /\ userDeposits' = ud1
            /\ totalDeposits' = td1
            /\ aaveBalance' = aave1
            /\ ethBalance' = e.eth
            /\ frames' = Append(below, [f EXCEPT !.pc = AtCall])
            /\ pending' = [v \in Users |-> NoPending]
            /\ UNCHANGED <<deposited, withdrawn, last>>

\* lines 94-116: withdraw(amount) is called, by a transaction or by code that an
\* external call of the innermost frame has given control to, and runs to its first
\* external call
WithdrawBegin(u, amount) ==
    /\ Len(frames) < MaxDepth
    /\ LET req == withdrawRequire(userDeposits, totalDeposits, u, amount)
           share == userShare(TotalVaultValue, amount, totalDeposits)
           b == withdrawBookkeeping(userDeposits, totalDeposits, u, amount)
           toPull == amountToWithdraw(share, ethBalance)
           f == [sender |-> u, amount |-> amount, share |-> share, pc |-> AtPool,
                 amountToWithdraw |-> 0, wethToSend |-> 0, ethToSend |-> 0,
                 saved |-> Snapshot]
           failed(reason) ==
               /\ last' = Call("withdraw", u, amount, reason, 0, 0, 0)
               /\ UNCHANGED <<userDeposits, totalDeposits, ethBalance, aaveBalance,
                              deposited, withdrawn, pending, frames>>
       IN IF req # OK THEN failed(req)
          ELSE IF totalDeposits = 0 \/ b.panic THEN failed(ErrPanic)
          ELSE IF needAave(share, ethBalance, aaveBalance)
          THEN IF toPull < 0 THEN failed(ErrPanic)
               ELSE /\ userDeposits' = b.ud
                    /\ totalDeposits' = b.td
                    /\ frames' = Append(frames,
                          [f EXCEPT !.amountToWithdraw = toPull, !.ethToSend = ethBalance])
                    /\ pending' = [v \in Users |-> NoPending]
                    /\ UNCHANGED <<ethBalance, aaveBalance, deposited, withdrawn, last>>
          ELSE SendEth([f EXCEPT !.ethToSend = share], frames, b.ud, b.td, aaveBalance)

\* lines 116-128: aavePool.withdraw returns or reverts; on return the WETH received is
\* passed on with weth.transfer
PoolReturns(succeeds) ==
    /\ frames # <<>>
    /\ Top.pc = AtPool
    /\ LET p == aavePoolWithdraw(aaveBalance, Top.amountToWithdraw, succeeds)
           w == wethTransfer(p.withdrawn, TRUE)
       IN IF p.reverted THEN RevertFrame(Top, Below, ErrAaveWithdraw)
          ELSE IF w.sent = 0
          THEN SendEth([Top EXCEPT !.wethToSend = 0], Below,
                       userDeposits, totalDeposits, p.aave)
          ELSE /\ aaveBalance' = p.aave
               /\ frames' = Append(Below, [Top EXCEPT !.pc = AtWeth,
                                                       !.wethToSend = p.withdrawn])
               /\ UNCHANGED <<userDeposits, totalDeposits, ethBalance,
                              deposited, withdrawn, pending, last>>

\* lines 127-133: weth.transfer returns true, or fails; on success the ETH transfer
\* follows
WethReturns(succeeds) ==
    /\ frames # <<>>
    /\ Top.pc = AtWeth
    /\ IF wethTransfer(Top.wethToSend, succeeds).reverted
       THEN RevertFrame(Top, Below, ErrWethTransfer)
       ELSE SendEth(Top, Below, userDeposits, totalDeposits, aaveBalance)

\* lines 132-137: the code of the recipient of the ETH returns, or reverts and makes
\* the call report failure
CallReturns(accepts) ==
    /\ frames # <<>>
    /\ Top.pc = AtCall
    /\ IF accepts
       THEN FinishFrame(Top, Below, userDeposits, totalDeposits, ethBalance, aaveBalance)
       ELSE RevertFrame(Top, Below, ErrEthTransfer)

\* between transactions: no call is in progress
Idle == frames = <<>>

NextSteps ==
    \/ \E u \in Users, value \in 0 .. MaxAmount : Idle /\ Deposit(u, value)
    \/ \E u \in Users, ext \in Behaviours : Idle /\ SupplyToAave(u, ext)
    \/ \E y \in 1 .. MaxAmount : Idle /\ AccrueYield(y)
    \/ \E value \in 1 .. MaxAmount : Idle /\ Receive(value)
    \/ \E u \in Users, amount \in WithdrawAmounts : WithdrawBegin(u, amount)
    \/ \E succeeds \in BOOLEAN : PoolReturns(succeeds)
    \/ \E succeeds \in BOOLEAN : WethReturns(succeeds)
    \/ \E accepts \in BOOLEAN : CallReturns(accepts)

SpecSteps == Init /\ [][NextSteps]_vars

\* ------------------------------------------------------------ properties
core == <<userDeposits, totalDeposits, ethBalance, aaveBalance>>

\* floor(V * amount / T) on the state before the step
ShareBefore(amount) == (TotalVaultValue * amount) \div totalDeposits

\* the latest call was withdraw and it returned normally
WithdrawDone == last.op = "withdraw" /\ last.status = OK

\* C1: in every reachable state totalDeposits is the exact sum of userDeposits[d]
\* over all depositors d.
C1_TotalIsSumOfDeposits == totalDeposits = SumOver(userDeposits, Users)

\* reached: a successful withdraw in a vault holding yield, both depositors in
C1_Witness ==
    /\ WithdrawDone
    /\ \A u \in Users : userDeposits[u] > 0
    /\ aaveBalance > 0
    /\ TotalVaultValue > totalDeposits

\* C2: the yield source never losing value, getTotalVaultValue() >= totalDeposits
\* in every reachable state, also after a payout that was rounded down.
C2_ValueCoversPrincipal == TotalVaultValue >= totalDeposits

\* reached: a withdraw whose payout was rounded down (payout / amount differs
\* from the value left per unit of principal left), with principal left
C2_Witness ==
    /\ WithdrawDone
    /\ totalDeposits > 0
    /\ last.payout * totalDeposits # TotalVaultValue * last.amount

\* C3: a successful withdraw(amount) delivers native plus wrapped amounts whose sum
\* is exactly floor(V * amount / T), V and T read before the bookkeeping update;
\* the Withdrawn event reports the same value, and the vault's funds drop by it.
C3_WithdrawDeliversShare ==
    [][(last'.op = "withdraw" /\ last'.status = OK)
        => /\ last'.ethSent + last'.wethSent = ShareBefore(last'.amount)
           /\ last'.payout = ShareBefore(last'.amount)
           /\ ethBalance' = ethBalance - last'.ethSent
           /\ aaveBalance' = aaveBalance - last'.wethSent]_vars

\* reached: a withdraw paid partly in ETH and partly in WETH, above its principal
C3_Witness ==
    /\ WithdrawDone
    /\ last.ethSent > 0
    /\ last.wethSent > 0
    /\ last.payout > last.amount

\* C4: in every reachable state a depositor with principal p > 0 can withdraw any
\* amount a with 0 < a <= p when no collaborator fails: the call returns normally
\* and its payout is within idle balance plus yield-source balance.
C4_DepositorCanWithdraw ==
    \A u \in Users : \A a \in 1 .. userDeposits[u] :
        LET r == withdraw(userDeposits, totalDeposits, ethBalance, aaveBalance,
                          u, a, AllGood)
        IN /\ r.status = OK
           /\ r.ethSent + r.wethSent <= TotalVaultValue
           /\ r.ethSent <= ethBalance
           /\ r.wethSent <= aaveBalance

\* reached: a depositor has withdrawn from a vault whose value was split between
\* idle and deployed balance, after deposits of the other depositor, who stays in
C4_Witness ==
    /\ WithdrawDone
    /\ last.ethSent > 0
    /\ last.wethSent > 0
    /\ \E u \in Users : u # last.caller /\ userDeposits[u] > 0
    /\ aaveBalance > 0

\* C5: a withdraw that fails at the yield-source withdraw, the WETH transfer or the
\* ETH transfer leaves userDeposits, totalDeposits and both balances as they were;
\* principal is deducted only by a call that returns normally and delivers the payout.
C5_FailedWithdrawChangesNothing ==
    [][last'.op = "withdraw"
        => /\ last'.status \in {ErrAaveWithdraw, ErrWethTransfer, ErrEthTransfer}
                => UNCHANGED core
           /\ userDeposits' # userDeposits \/ totalDeposits' # totalDeposits
                => /\ last'.status = OK
                   /\ last'.ethSent + last'.wethSent = ShareBefore(last'.amount)]_vars

\* reached: the caller refused the ETH of a withdraw that had already pulled from Aave
C5_Witness ==
    /\ last.op = "withdraw"
    /\ last.status = ErrEthTransfer
    /\ ethBalance > 0
    /\ aaveBalance > 0
    /\ userDeposits[last.caller] >= last.amount
    /\ ShareBefore(last.amount) > ethBalance

\* C6: withdraw(amount) with amount > userDeposits[caller] is rejected with
\* "Insufficient balance", changes no ledger field and no balance, and pays nothing.
C6_WithdrawAboveBalanceRejected ==
    [][(last'.op = "withdraw" /\ last'.amount > userDeposits[last'.caller])
        => /\ last'.status = ErrInsufficient
           /\ UNCHANGED core
           /\ last'.ethSent = 0 /\ last'.wethSent = 0]_vars

\* reached: a depositor with principal asked for more than it, within totalDeposits
C6_Witness ==
    /\ last.op = "withdraw"
    /\ last.status = ErrInsufficient
    /\ userDeposits[last.caller] > 0
    /\ last.amount > userDeposits[last.caller]
    /\ last.amount <= totalDeposits

\* C7: what a depositor has withdrawn never exceeds what they deposited, their
\* record is the difference, and with a record of 0 every withdraw of a positive
\* amount is rejected.
C7_NoDoubleSpend ==
    \A u \in Users :
        /\ withdrawn[u] <= deposited[u]
        /\ userDeposits[u] = deposited[u] - withdrawn[u]
        /\ userDeposits[u] = 0
             => \A a \in 1 .. (MaxDeposited + 1) :
                    withdraw(userDeposits, totalDeposits, ethBalance, aaveBalance,
                             u, a, AllGood).status = ErrInsufficient

\* reached: a depositor has just withdrawn all they deposited, in two deposits,
\* while the vault still holds another depositor's principal
C7_Witness ==
    /\ WithdrawDone
    /\ deposited[last.caller] = MaxDeposited
    /\ withdrawn[last.caller] = deposited[last.caller]
    /\ userDeposits[last.caller] = 0
    /\ totalDeposits > 0

\* the withdraw of this step is the one that follows depositor u's latest deposit,
\* with no supply, no yield and no direct receipt in between, and asks for the
\* deposited amount
RoundTripStep(u) ==
    /\ pending[u].amount > 0
    /\ last'.op = "withdraw"
    /\ last'.caller = u
    /\ last'.amount = pending[u].amount
    /\ last'.status = OK

RoundTripExact(u) ==
    /\ last'.payout = pending[u].amount
    /\ last'.ethSent + last'.wethSent = pending[u].amount
    /\ userDeposits'[u] = pending[u].prior

\* C8 as stated: from any reachable state, deposit(amount) followed by the
\* depositor's withdraw(amount), no supply or yield in between, pays exactly amount
\* and restores userDeposits[depositor].
C8_RoundTripAnyState ==
    [][\A u \in Users : RoundTripStep(u) => RoundTripExact(u)]_vars

\* C8 amended: the same round trip, when the vault holds no value beyond principal
\* (getTotalVaultValue() = totalDeposits) at the withdraw, pays exactly amount; the
\* record of the depositor is restored in every case.
C8_RoundTripNoExcessValue ==
    [][\A u \in Users : RoundTripStep(u)
          => /\ userDeposits'[u] = pending[u].prior
             /\ TotalVaultValue = totalDeposits => RoundTripExact(u)]_vars

\* reached: a round trip completed on top of earlier principal of both depositors
C8_Witness ==
    /\ WithdrawDone
    /\ last.payout = last.amount
    /\ pending[last.caller] = NoPending
    /\ userDeposits[last.caller] > 0
    /\ deposited[last.caller] = userDeposits[last.caller] + last.amount
    /\ withdrawn[last.caller] = last.amount
    /\ \E u \in Users : u # last.caller /\ userDeposits[u] > 0
    /\ TotalVaultValue = totalDeposits

\* C9: a deposit of amount > 0 succeeds and adds exactly amount to
\* userDeposits[caller], to totalDeposits and to the idle balance, and leaves the
\* other records and the yield-source balance as they were.
C9_DepositAddsAmount ==
    [][last'.op = "deposit"
        => /\ (last'.status = OK) = (last'.amount > 0)
           /\ last'.status = OK
                => /\ userDeposits' = [userDeposits EXCEPT
                                          ![last'.caller] = @ + last'.amount]
                   /\ totalDeposits' = totalDeposits + last'.amount
                   /\ ethBalance' = ethBalance + last'.amount
                   /\ aaveBalance' = aaveBalance]_vars

\* reached: a repeated deposit of a depositor, with funds already in Aave
C9_Witness ==
    /\ last.op = "deposit"
    /\ last.status = OK
    /\ userDeposits[last.caller] > last.amount
    /\ aaveBalance > 0

\* C10: a successful supplyToAave leaves idle balance 0, adds exactly the previous
\* idle balance to the yield-source balance, and leaves getTotalVaultValue(),
\* userDeposits, totalDeposits and every getUserValue as they were.
C10_SupplyMovesIdleBalance ==
    [][(last'.op = "supplyToAave" /\ last'.status = OK)
        => /\ ethBalance' = 0
           /\ aaveBalance' = aaveBalance + ethBalance
           /\ last'.amount = ethBalance
           /\ getTotalVaultValue(ethBalance', aaveBalance') = TotalVaultValue
           /\ userDeposits' = userDeposits
           /\ totalDeposits' = totalDeposits
           /\ \A u \in Users :
                getUserValue(userDeposits', totalDeposits', ethBalance', aaveBalance', u)
                  = getUserValue(userDeposits, totalDeposits, ethBalance, aaveBalance, u)]_vars

\* reached: a supply on top of an earlier one, of ETH that was partly not deposited
C10_Witness ==
    /\ last.op = "supplyToAave"
    /\ last.status = OK
    /\ aaveBalance > last.amount
    /\ last.amount > 0
    /\ totalDeposits > 0
    /\ TotalVaultValue > totalDeposits

\* this step is a call of supplyToAave
SupplyStep == last'.op = "supplyToAave"

\* C11 as stated: supplyToAave succeeds exactly when the idle balance is > 0; with
\* idle balance 0 it is rejected with "No ETH to supply" and changes nothing.
C11_SupplySucceedsIffIdle ==
    [][SupplyStep
        => /\ (last'.status = OK) = (ethBalance > 0)
           /\ ethBalance = 0 => last'.status = ErrNoEth /\ UNCHANGED core]_vars

\* C11 amended: supplyToAave succeeds exactly when the idle balance is > 0 and none
\* of weth.deposit, weth.approve, aavePool.supply reverts, whoever calls; with idle
\* balance 0 it is rejected with "No ETH to supply" and changes nothing, so a
\* supply right after a successful one is rejected.
C11_SupplySucceedsIffIdleAndNoRevert ==
    [][SupplyStep
        => /\ (supplyToAave(totalDeposits, ethBalance, aaveBalance, AllGood).status = OK)
                = (ethBalance > 0)
           /\ (last'.status = OK) = (ethBalance > 0 /\ last'.status # ErrSupply)
           /\ ethBalance = 0 => last'.status = ErrNoEth
           /\ last'.status # OK => UNCHANGED core
           /\ (last.op = "supplyToAave" /\ last.status = OK)
                => last'.status = ErrNoEth]_vars

\* reached: a caller who never deposited is refused a supply, the funds of the
\* depositors being in Aave already
C11_Witness ==
    /\ last.op = "supplyToAave"
    /\ last.status = ErrNoEth
    /\ deposited[last.caller] = 0
    /\ totalDeposits > 0
    /\ aaveBalance >= totalDeposits

\* C12: deposit with msg.value 0 and withdraw(0) are rejected, each with its
\* "more than 0" reason, and change nothing; withdraw(0) gives that reason, not
\* "Insufficient balance", also for a caller whose principal is 0.
C12_ZeroAmountRejected ==
    [][/\ (last'.op = "deposit" /\ last'.amount = 0)
            => last'.status = ErrDepositZero /\ UNCHANGED core
       /\ (last'.op = "withdraw" /\ last'.amount = 0)
            => /\ last'.status = ErrWithdrawZero
               /\ UNCHANGED core
               /\ last'.ethSent = 0 /\ last'.wethSent = 0]_vars

\* reached: withdraw(0) of a caller without principal, in a vault that holds the
\* principal of the other depositor
C12_Witness ==
    /\ last.op = "withdraw"
    /\ last.amount = 0
    /\ last.status = ErrWithdrawZero
    /\ userDeposits[last.caller] = 0
    /\ totalDeposits > 0

\* the views on the current state
UserValue(d) == getUserValue(userDeposits, totalDeposits, ethBalance, aaveBalance, d)
UserInterest(d) ==
    getUserInterest(userDeposits, totalDeposits, ethBalance, aaveBalance, d)

\* C13 as stated: whenever totalDeposits is 0, getTotalVaultValue(), getUserValue(d)
\* and getUserInterest(d) all return 0, for every d.
C13_EmptyLedgerAllZero ==
    totalDeposits = 0
        => /\ TotalVaultValue = 0
           /\ \A d \in Users : UserValue(d) = 0 /\ UserInterest(d) = 0

\* C13 amended: whenever totalDeposits is 0, getUserValue(d) and getUserInterest(d)
\* return 0 for every d; getTotalVaultValue() is 0 in a fresh vault and right after
\* the withdraw that empties the ledger (it need not be 0 once ETH has reached the
\* empty vault through receive()).
C13_EmptyLedgerUserViewsZero ==
    totalDeposits = 0
        => /\ \A d \in Users : UserValue(d) = 0 /\ UserInterest(d) = 0
           /\ (last.op = "constructor" \/ WithdrawDone) => TotalVaultValue = 0

\* reached: every depositor has withdrawn in full, and value received since then
\* sits in the vault and in Aave
C13_Witness ==
    /\ totalDeposits = 0
    /\ \A d \in Users : deposited[d] > 0 /\ withdrawn[d] = deposited[d]
    /\ ethBalance > 0
    /\ aaveBalance > 0

\* C17: userDeposits[d] changes only in a successful deposit of d, by plus the
\* amount deposited, or in a successful withdraw of d, by minus the amount withdrawn.
C17_OnlyOwnCallsChangeRecord ==
    [][\A d \in Users :
          userDeposits'[d] # userDeposits[d]
            => /\ last'.caller = d
               /\ last'.status = OK
               /\ \/ /\ last'.op = "deposit"
                     /\ userDeposits'[d] = userDeposits[d] + last'.amount
                  \/ /\ last'.op = "withdraw"
                     /\ userDeposits'[d] = userDeposits[d] - last'.amount]_vars

\* reached: a depositor's record is what they deposited and never withdrew, after
\* a withdraw of the other depositor from a vault with funds in Aave and yield
C17_Witness ==
    /\ WithdrawDone
    /\ \E d \in Users :
          /\ d # last.caller
          /\ userDeposits[d] > 0
          /\ userDeposits[d] = deposited[d]
    /\ last.payout > last.amount
    /\ last.wethSent > 0

\* C18: a successful withdraw whose payout is within the idle balance pays it all in
\* ETH and leaves the aToken balance; otherwise it pulls exactly payout - idle
\* balance from Aave, pays that in WETH and the whole idle balance in ETH, leaving
\* idle balance 0.  No withdraw a depositor can make takes the ETH-only branch with
\* a payout above the idle balance.
C18_WithdrawRouting ==
    [][/\ (last'.op = "withdraw" /\ last'.status = OK)
            => LET payout == ShareBefore(last'.amount)
               IN IF ethBalance >= payout
                  THEN /\ last'.ethSent = payout
                       /\ last'.wethSent = 0
                       /\ ethBalance' = ethBalance - payout
                       /\ aaveBalance' = aaveBalance
                  ELSE /\ last'.wethSent = payout - ethBalance
                       /\ last'.ethSent = ethBalance
                       /\ ethBalance' = 0
                       /\ aaveBalance' = aaveBalance - (payout - ethBalance)
       /\ \A u \in Users : \A a \in 1 .. userDeposits[u] :
            ShareBefore(a) > ethBalance
              => needAave(ShareBefore(a), ethBalance, aaveBalance)]_vars

\* reached: a withdraw paid the whole idle balance in ETH and the rest in WETH,
\* and funds of the remaining principal stay in Aave
C18_Witness ==
    /\ WithdrawDone
    /\ last.ethSent > 0
    /\ last.wethSent > 0
    /\ ethBalance = 0
    /\ aaveBalance > 0
    /\ totalDeposits > 0

\* ---- C15
Max(a, b) == IF a >= b THEN a ELSE b

\* C15: in every reachable state and for every d, getUserValue(d) is 0 if totalDeposits
\* is 0 and floor(getTotalVaultValue() * userDeposits[d] / totalDeposits) otherwise, and
\* getUserInterest(d) is max(0, getUserValue(d) - userDeposits[d]): never negative, also
\* when the vault value is below principal.
C15_ViewFormulas ==
    \A d \in Users :
       /\ UserValue(d) = IF totalDeposits = 0 THEN 0
                         ELSE (TotalVaultValue * userDeposits[d]) \div totalDeposits
       /\ UserInterest(d) = Max(0, UserValue(d) - userDeposits[d])
       /\ UserInterest(d) >= 0

\* the vault value is below principal: a depositor's value is under their record, and
\* the other depositor's record is different
C15_Witness ==
    /\ TotalVaultValue < totalDeposits
    /\ TotalVaultValue > 0
    /\ \E d, e \in Users :
          /\ userDeposits[d] > 0
          /\ UserValue(d) < userDeposits[d]
          /\ UserInterest(d) = 0
          /\ userDeposits[e] > userDeposits[d]

\* ---- C14
Abs(x) == IF x < 0 THEN -x ELSE x
\* the scenario is complete: the 10% yield is the latest event
ScenarioDone == last.op = "yield" /\ \A d \in Users : userDeposits[d] = deposited[d]
\* the unit both depositors put in
ScenarioUnit == deposited[CHOOSE d \in Users : TRUE]
\* the rounding tolerance: one thousandth of a unit
Tolerance == ScenarioUnit \div 1000

\* C14 as stated: after two equal deposits of 1.0 unit, a supply and 10% yield on the
\* pooled claim, the two getUserValue results are within the tolerance of each other
\* and each getUserInterest is positive and approximately 0.05 units.
C14_EachInterestFiveHundredths ==
    ScenarioDone
        => /\ \A d, e \in Users : Abs(UserValue(d) - UserValue(e)) < Tolerance
           /\ \A d \in Users :
                 /\ UserInterest(d) > 0
                 /\ Abs(UserInterest(d) - (5 * ScenarioUnit) \div 100) <= Tolerance

\* C14 amended: in that scenario the two getUserValue results are within the tolerance
\* of each other and each getUserInterest is positive and approximately 0.1 units
\* (10% of the depositor's own 1.0 unit).
C14_EachInterestOneTenth ==
    ScenarioDone
        => /\ \A d, e \in Users : Abs(UserValue(d) - UserValue(e)) < Tolerance
           /\ \A d \in Users :
                 /\ UserInterest(d) > 0
                 /\ Abs(UserInterest(d) - ScenarioUnit \div 10) <= Tolerance

\* the scenario has run to its end with an odd vault value, so that each half is
\* rounded down
C14_Witness ==
    /\ ScenarioDone
    /\ ethBalance = 0
    /\ aaveBalance % 2 = 1
    /\ \A d \in Users : UserInterest(d) > 0 /\ 2 * UserValue(d) < aaveBalance

\* ---- C19
\* the step hands control to an external call of withdraw: a new frame stops at its
\* first call, or the innermost frame moves on to its next call
LeavesLedger ==
    /\ frames' # <<>>
    /\ \/ Len(frames') > Len(frames)
       \/ Len(frames') = Len(frames) /\ frames'[Len(frames')].pc # Top.pc

\* C19: at the moment of every external call withdraw makes (aavePool.withdraw,
\* weth.transfer, the ETH call to the caller), userDeposits[caller] and totalDeposits
\* have already been reduced by amount: the first call of a withdraw is made with both
\* reduced, and the later ones with both as they were left; and totalDeposits is the
\* sum of userDeposits whenever control is outside the ledger.
C19_EffectsBeforeInteractions ==
    /\ [](frames # <<>> => totalDeposits = SumOver(userDeposits, Users))
    /\ [][LeavesLedger
            => LET f == frames'[Len(frames')]
               IN IF Len(frames') > Len(frames)
                  THEN /\ userDeposits' =
                            [userDeposits EXCEPT ![f.sender] = @ - f.amount]
                       /\ totalDeposits' = totalDeposits - f.amount
                       /\ f.amount > 0
                       /\ f.saved.ud = userDeposits
                       /\ f.saved.td = totalDeposits
                  ELSE UNCHANGED <<userDeposits, totalDeposits>>]_vars

\* a withdraw stopped in aavePool.withdraw has been re-entered by the other depositor,
\* whose withdraw is stopped in weth.transfer
C19_Witness ==
    /\ Len(frames) = 2
    /\ frames[1].pc = AtPool
    /\ Top.pc = AtWeth
    /\ Top.sender # frames[1].sender
    /\ totalDeposits = frames[1].saved.td - frames[1].amount - Top.amount

\* ---- C20
\* the balances the vault holds immediately after the innermost withdraw in progress
\* has completed, when its remaining external calls succeed (lines 116-135): the pool
\* takes amountToWithdraw of the aToken balance, the ETH call takes ethToSend
AfterCompletion(f) ==
    [eth  |-> IF f.pc = AtCall THEN ethBalance ELSE ethBalance - f.ethToSend,
     aave |-> IF f.pc = AtPool THEN aaveBalance - f.amountToWithdraw ELSE aaveBalance]

\* C20 as stated: a call that re-enters the ledger from an external call made during a
\* withdraw (aavePool.withdraw, weth.transfer, the ETH call) gets no larger value from
\* getUserValue, and no larger payout from withdraw, than the same call would get
\* immediately after the outer withdraw has completed.
C20_ReentrantCallSeesNoStaleBalance ==
    frames # <<>>
        => LET after == AfterCompletion(Top)
           IN (after.eth >= 0 /\ after.aave >= 0)
                => /\ \A d \in Users :
                        UserValue(d) <= getUserValue(userDeposits, totalDeposits,
                                                     after.eth, after.aave, d)
                   /\ \A d \in Users : \A amount \in 1 .. userDeposits[d] :
                        userShare(TotalVaultValue, amount, totalDeposits)
                          <= userShare(getTotalVaultValue(after.eth, after.aave),
                                       amount, totalDeposits)

\* ---- C22
\* C22: a successful withdraw by one depositor never decreases getUserValue(d) of any
\* other depositor d: the payout is floor(V * amount / T), so the vault value left per
\* unit of remaining principal is at least what it was (V' * T >= V * T').
C22_WithdrawKeepsOthersValue ==
    [][(last'.op = "withdraw" /\ last'.status = OK)
        => /\ \A d \in Users \ {last'.caller} :
                getUserValue(userDeposits', totalDeposits', ethBalance', aaveBalance', d)
                    >= UserValue(d)
           /\ getTotalVaultValue(ethBalance', aaveBalance') * totalDeposits
                    >= TotalVaultValue * totalDeposits'
           /\ TotalVaultValue * last'.amount - last'.payout * totalDeposits < totalDeposits
           /\ TotalVaultValue * last'.amount >= last'.payout * totalDeposits]_vars

\* a withdraw whose payout was rounded down has raised the value of the other
\* depositor, who still holds principal
C22_Witness ==
    /\ WithdrawDone
    /\ \E d \in Users \ {last.caller} :
          /\ userDeposits[d] > 0
          /\ UserValue(d) > userDeposits[d]
          /\ (TotalVaultValue + last.payout) * last.amount
                 > last.payout * (totalDeposits + last.amount)
          /\ UserValue(d) > ((TotalVaultValue + last.payout) * userDeposits[d])
                                \div (totalDeposits + last.amount)

\* ---- C23
\* C23: in every reachable state the sum of getUserValue(d) over all depositors d is
\* at most getTotalVaultValue(), and each depositor's whole claim can be paid at once:
\* withdraw of the whole record pays getUserValue(d) when the collaborators do not fail.
C23_ClaimsCoveredByVaultValue ==
    /\ SumOver([d \in Users |-> UserValue(d)], Users) <= TotalVaultValue
    /\ \A d \in Users :
          userDeposits[d] > 0
            => LET r == withdraw(userDeposits, totalDeposits, ethBalance, aaveBalance,
                                 d, userDeposits[d], AllGood)
               IN /\ r.status = OK
                  /\ r.userShare = UserValue(d)
                  /\ r.ethSent + r.wethSent = UserValue(d)

\* both depositors hold claims above their principal, and rounding leaves part of the
\* vault value claimed by no one
C23_Witness ==
    /\ \A d \in Users : userDeposits[d] > 0 /\ UserValue(d) >= userDeposits[d]
    /\ SumOver([d \in Users |-> UserValue(d)], Users) < TotalVaultValue
    /\ aaveBalance > 0
    /\ ethBalance > 0

\* ---- C24
\* C24: as long as no yield has accrued and no value has reached the vault other than
\* through deposit, getTotalVaultValue() == totalDeposits holds after every operation
\* (deposit, supplyToAave, withdraw), and every successful withdraw(amount) pays out
\* exactly amount.
C24_ValueEqualsPrincipalWithoutYield ==
    /\ [](TotalVaultValue = totalDeposits)
    /\ [][(last'.op = "withdraw" /\ last'.status = OK)
            => /\ last'.payout = last'.amount
               /\ last'.ethSent + last'.wethSent = last'.amount
               /\ getTotalVaultValue(ethBalance', aaveBalance')
                     = TotalVaultValue - last'.amount]_vars

\* a withdraw paid partly in ETH and partly in WETH, after a withdraw of the other
\* depositor, part of whose principal is still in the vault
C24_Witness ==
    /\ WithdrawDone
    /\ last.ethSent > 0
    /\ last.wethSent > 0
    /\ last.payout = last.amount
    /\ \E d \in Users \ {last.caller} : withdrawn[d] > 0 /\ userDeposits[d] > 0

\* ---- C25
\* C25: a successful withdraw of the entire remaining principal of the ledger
\* (amount == totalDeposits before the call) pays out the whole getTotalVaultValue(),
\* rounding dust and value received outside deposit included, and leaves both
\* totalDeposits and getTotalVaultValue() at 0.
C25_LastWithdrawEmptiesVault ==
    [][(last'.op = "withdraw" /\ last'.status = OK /\ last'.amount = totalDeposits)
        => /\ last'.payout = TotalVaultValue
           /\ last'.ethSent + last'.wethSent = TotalVaultValue
           /\ last'.ethSent = ethBalance
           /\ last'.wethSent = aaveBalance
           /\ totalDeposits' = 0
           /\ getTotalVaultValue(ethBalance', aaveBalance') = 0]_vars

\* the last depositor has left after the other one, taking more than their principal,
\* partly in ETH and partly in WETH
C25_Witness ==
    /\ WithdrawDone
    /\ totalDeposits = 0
    /\ TotalVaultValue = 0
    /\ last.payout > last.amount
    /\ last.ethSent > 0
    /\ last.wethSent > 0
    /\ \A d \in Users : deposited[d] > 0 /\ withdrawn[d] = deposited[d]

\* ---- C21
\* the principal of the sender of frame f that is left after f's own reduction and the
\* withdraws of the sender completed inside f
ReducedPrincipal(f) ==
    f.saved.ud[f.sender] - f.amount - (withdrawn[f.sender] - f.saved.withdrawn[f.sender])

\* the innermost withdraw is stopped in the ETH call to its sender
InCallback == frames # <<>> /\ Top.pc = AtCall

\* the innermost withdraw was called by the recipient of the ETH call of the withdraw
\* around it, and no further withdraw has completed inside it
NestedInCallback ==
    /\ Len(frames) >= 2
    /\ frames[Len(frames) - 1].pc = AtCall
    /\ frames[Len(frames) - 1].sender = Top.sender
    /\ withdrawn = Top.saved.withdrawn

\* C21: when the recipient of the ETH transfer re-enters withdraw from its receive
\* callback, the nested withdraw behaves as if issued after the outer one completed:
\* completing the outer call changes nothing the callback saw; an amount above the
\* already-reduced principal is rejected; otherwise the nested call leaves the ledger
\* and pays the caller what withdraw called on the completed state leaves and pays.
C21_NestedWithdrawAsSequential ==
    [][/\ (Len(frames') < Len(frames) /\ last'.status = OK)
            => /\ UNCHANGED core
               /\ last'.caller = Top.sender
               /\ last'.payout = Top.share
               /\ last'.ethSent + last'.wethSent = Top.share
       /\ (InCallback /\ frames' = frames /\ last' # last /\ last'.caller = Top.sender)
            => LET r == withdraw(userDeposits, totalDeposits, ethBalance, aaveBalance,
                                 Top.sender, last'.amount, AllGood)
               IN /\ userDeposits[Top.sender] = ReducedPrincipal(Top)
                  /\ last'.amount > ReducedPrincipal(Top)
                        => last'.status = ErrInsufficient
                  /\ last'.status = r.status
                  /\ last'.payout = r.userShare
                  /\ core' = <<r.ud, r.td, r.eth, r.aave>>
       /\ (InCallback /\ Len(frames') > Len(frames)
              /\ frames'[Len(frames')].sender = Top.sender)
            => /\ userDeposits[Top.sender] = ReducedPrincipal(Top)
               /\ frames'[Len(frames')].amount <= ReducedPrincipal(Top)
       /\ (NestedInCallback /\ Len(frames') < Len(frames) /\ last'.status = OK)
            => LET s == Top.saved
                   r == withdraw(s.ud, s.td, s.eth, s.aave, Top.sender, Top.amount, AllGood)
               IN /\ r.status = OK
                  /\ userDeposits' = r.ud
                  /\ totalDeposits' = r.td
                  /\ ethBalance' = r.eth
                  /\ aaveBalance' = r.aave
                  /\ last'.payout = r.userShare
                  /\ last'.ethSent = r.ethSent
                  /\ last'.wethSent = r.wethSent]_vars

\* a withdraw paid from the idle balance alone is stopped in its ETH call; its sender
\* has re-entered withdraw from there and that call has completed, paid in WETH, with
\* the other depositor's principal in the vault
C21_Witness ==
    /\ Len(frames) = 1
    /\ InCallback
    /\ Top.amountToWithdraw = 0
    /\ WithdrawDone
    /\ last.caller = Top.sender
    /\ last.amount > 0
    /\ last.wethSent > 0
    /\ withdrawn[Top.sender] = Top.saved.withdrawn[Top.sender] + last.amount
    /\ \E d \in Users \ {Top.sender} : userDeposits[d] > 0

====
